---- MODULE Spec2Model ----
(***************************************************************************)
(* Attribute-choice aggregation of the catalog API: the multi-slug         *)
(* resolver (product/resolvers.py) and the attribute data loaders          *)
(* (attribute/dataloaders.py), over a small relational store.              *)
(***************************************************************************)
EXTENDS Integers, Sequences, FiniteSets, TLC

\* ------------------------------------------------------------------ bounds
NumProducts == 2
MaxInputSize == 4

\* ------------------------------------------------------------------ store
None == [type |-> "None"]

Products == 1..NumProducts

\* ProductVariant rows <<product_id, sku>>: every product has variant "a",
\* product 1 has a second variant "b".
Variants == (Products \X {"a"}) \cup {<<1, "b">>}

VariantProduct(variant) == variant[1]

\* Attribute rows; the slug "material" names no attribute.
AttributeTable ==
    { [type |-> "Attribute", id |-> 1, slug |-> "size"],
      [type |-> "Attribute", id |-> 2, slug |-> "color"] }

Slugs == {"size", "color", "material"}

AttributeIds == {1, 2, 3}

\* AttributeValue rows as they are when the assignment tables are read.
AttributeValueTable ==
    { [type |-> "AttributeValue", id |-> 1, attribute_id |-> 1, name |-> "Small"],
      [type |-> "AttributeValue", id |-> 2, attribute_id |-> 1, name |-> "Big"],
      [type |-> "AttributeValue", id |-> 3, attribute_id |-> 2, name |-> "Red"] }

ValueIds == {v.id : v \in AttributeValueTable}

\* value__attribute__slug: the slug of the attribute a value belongs to.
ValueAttributeSlug(value_id) ==
    LET v == CHOOSE x \in AttributeValueTable : x.id = value_id
        a == CHOOSE x \in AttributeTable : x.id = v.attribute_id
    IN  a.slug

\* The one channel of the store; any other channel slug resolves to None.
ChannelTable == { [type |-> "Channel", id |-> 1, slug |-> "default-channel"] }

ChannelSlugs == {"default-channel", "other-channel"}

ALL_PRODUCTS_PERMISSIONS == {"MANAGE_PRODUCTS", "MANAGE_ORDERS"}

VARIABLES
    assignedProduct,   \* AssignedProductAttributeValue rows <<product_id, value_id>>
    assignedVariant,   \* AssignedVariantAttributeValue rows <<variant, value_id>>
    deletedValues,     \* value ids deleted before the value loader reads them
    listed,            \* products with a visible_in_listings listing in channel 1
    pc,                \* position of the request
    request,           \* the inputs of the handled request
    product_ids,       \* the product scope the resolver computed
    output,            \* the list the resolver returned
    results,           \* what the last loader batch settled to
    turn,              \* number of batch_load calls of the choices loader
    turnKeys,          \* keys of each choices batch_load call
    pending,           \* per key of the current call: its continuation
    slugQueue,         \* keys queued in AttributeBySlugLoader
    slugCache,         \* keys AttributeBySlugLoader has resolved
    slugBatches,       \* keys of every attribute-by-slug batch fetch
    valueQueue,        \* keys queued in AttributeValueByIdLoader
    valueCache,        \* keys AttributeValueByIdLoader has resolved
    valueBatches       \* keys of every attribute-value batch fetch

storeVars == <<assignedProduct, assignedVariant, deletedValues, listed>>
requestVars == <<request, product_ids>>
loaderVars == <<turn, turnKeys, pending, slugQueue, slugCache,
                slugBatches, valueQueue, valueCache, valueBatches>>
vars == <<storeVars, pc, requestVars, output, results, loaderVars>>

\* ------------------------------------------------------------------ helpers
RECURSIVE SetToSeq(_)
SetToSeq(S) ==
    IF S = {} THEN << >>
    ELSE LET x == CHOOSE y \in S : TRUE IN <<x>> \o SetToSeq(S \ {x})

Range(seq) == {seq[i] : i \in DOMAIN seq}

RECURSIVE SeqsUpTo(_, _)
SeqsUpTo(S, n) ==
    IF n <= 0 THEN {<< >>}
    ELSE LET shorter == SeqsUpTo(S, n - 1)
         IN  shorter \cup {Append(s, x) : s \in {t \in shorter : Len(t) = n - 1}, x \in S}

\* The subsets of S with at most n elements.
RECURSIVE BoundedSubsets(_, _)
BoundedSubsets(S, n) ==
    IF n <= 0 THEN {{}}
    ELSE LET smaller == BoundedSubsets(S, n - 1)
         IN  smaller \cup {T \cup {x} : T \in smaller, x \in S}

\* ------------------------------------------------------------------ entity loaders
\* AttributeValue rows visible to a lookup by id.
CurrentValues == {v \in AttributeValueTable : v.id \notin deletedValues}

AttributeValuesByAttributeIdLoader_batch_load(keys) ==
    [i \in DOMAIN keys |-> {v \in CurrentValues : v.attribute_id = keys[i]}]

AttributesByAttributeId_batch_load(keys) ==
    [i \in DOMAIN keys |->
        IF \E a \in AttributeTable : a.id = keys[i]
        THEN CHOOSE a \in AttributeTable : a.id = keys[i]
        ELSE None]

AttributeValueByIdLoader_batch_load(keys) ==
    [i \in DOMAIN keys |->
        IF \E v \in CurrentValues : v.id = keys[i]
        THEN CHOOSE v \in CurrentValues : v.id = keys[i]
        ELSE None]

AttributeBySlugLoader_batch_load_fn(slugs) ==
    [i \in DOMAIN slugs |->
        IF \E a \in AttributeTable : a.slug = slugs[i]
        THEN CHOOSE a \in AttributeTable : a.slug = slugs[i]
        ELSE None]

\* ------------------------------------------------------------------ product scope
has_one_of_permissions(requestor, permissions) ==
    /\ requestor # None
    /\ requestor.permissions \cap permissions # {}

visible_to_user(requestor, channel, limited_channel_access) == Products

ChannelBySlugLoader_load(slug) ==
    IF \E c \in ChannelTable : c.slug = slug
    THEN CHOOSE c \in ChannelTable : c.slug = slug
    ELSE None

filter_qs(qs, filter_input) == qs \cap filter_input.matches

where_filter_qs(qs, filter_input) == qs \cap filter_input.matches

\* A scope resolver that leaves the scope unrestricted without a channel.
resolve_products_OpenWithoutChannel(requestor, channel, limited_channel_access) ==
    LET qs == visible_to_user(requestor, channel, limited_channel_access)
    IN  IF ~has_one_of_permissions(requestor, ALL_PRODUCTS_PERMISSIONS)
        THEN IF channel # None
             THEN {p \in qs : channel.id = 1 /\ p \in listed}
             ELSE qs
        ELSE qs

resolve_products(requestor, channel, limited_channel_access) ==
    LET qs == visible_to_user(requestor, channel, limited_channel_access)
    IN  IF ~has_one_of_permissions(requestor, ALL_PRODUCTS_PERMISSIONS)
        THEN IF channel # None
             THEN {p \in qs : channel.id = 1 /\ p \in listed}
             ELSE {}
        ELSE qs

\* resolve_product_attribute_choices, lines 272-295: the product scope.
\* The requestor handed to resolve_products is the literal None.
ResolverScope(channel, filter, where) ==
    LET channel_obj == ChannelBySlugLoader_load(channel)
        limited_channel_access == TRUE
        requestor == None
        qs0 == resolve_products(requestor, channel_obj, limited_channel_access)
        qs1 == IF filter # None THEN filter_qs(qs0, filter) ELSE qs0
        qs2 == IF where # None THEN where_filter_qs(qs1, where) ELSE qs1
    IN  qs2

\* ------------------------------------------------------------------ multi-slug path
\* A product-level query that leaves out the product_id__in filter.
ResolverProductRows_Unscoped(ids, attribute_slugs) ==
    { [slug |-> ValueAttributeSlug(r[2]), value_id |-> r[2], product_id |-> r[1]] :
        r \in {x \in assignedProduct :
                 ValueAttributeSlug(x[2]) \in Range(attribute_slugs)} }

\* lines 298-305: product-level rows of the scope for the requested slugs.
ResolverProductRows(ids, attribute_slugs) ==
    { [slug |-> ValueAttributeSlug(r[2]), value_id |-> r[2], product_id |-> r[1]] :
        r \in {x \in assignedProduct :
                 x[1] \in ids /\ ValueAttributeSlug(x[2]) \in Range(attribute_slugs)} }

\* lines 308-318: variant-level rows, projected on the owning product.
ResolverVariantRows(ids, attribute_slugs) ==
    { [slug |-> ValueAttributeSlug(r[2]), value_id |-> r[2],
       product_id |-> VariantProduct(r[1])] :
        r \in {x \in assignedVariant :
                 VariantProduct(x[1]) \in ids
                 /\ ValueAttributeSlug(x[2]) \in Range(attribute_slugs)} }

\* A grouping that keeps product-level and variant-level rows apart.
ResolverValueToProducts_PerRow(product_rows, variant_rows) ==
    [value_id \in {r.value_id : r \in product_rows \cup variant_rows} |->
        {<<"product", r.product_id>> : r \in {x \in product_rows : x.value_id = value_id}}
        \cup {<<"variant", r.product_id>> :
                r \in {x \in variant_rows : x.value_id = value_id}}]

\* lines 333-337: value_id -> set of product ids, both row sets united.
ResolverValueToProducts(product_rows, variant_rows) ==
    [value_id \in {r.value_id : r \in product_rows \cup variant_rows} |->
        {r.product_id : r \in {x \in product_rows : x.value_id = value_id}}
        \cup {r.product_id : r \in {x \in variant_rows : x.value_id = value_id}}]

\* lines 339-345: slug -> value ids of the rows whose product is in the scope.
ResolverSlugToValues(ids, product_rows, variant_rows, slug) ==
    {r.value_id : r \in {x \in product_rows : x.product_id \in ids /\ x.slug = slug}}
    \cup {r.value_id : r \in {x \in variant_rows : x.product_id \in ids /\ x.slug = slug}}

\* lines 353-365: the group of one resolved attribute.
ResolverGroup(attribute, value_ids, value_to_products, values_dict) ==
    [type |-> "ProductAttributeChoices",
     attribute |-> attribute,
     choices |->
        { [product_count |-> Cardinality(value_to_products[value_id]),
           value |-> values_dict[value_id]] :
            value_id \in value_ids \cap DOMAIN values_dict }]

\* A loop over the attributes found instead of over the requested slugs.
ResolverEmittedSlugs_ByAttribute(attribute_slugs, attributes_dict) ==
    SetToSeq(DOMAIN attributes_dict \cap Range(attribute_slugs))

\* lines 348-351: the requested slugs that get a group, in request order.
ResolverEmittedSlugs(attribute_slugs, attributes_dict) ==
    SelectSeq(attribute_slugs, LAMBDA s : s \in DOMAIN attributes_dict)

\* lines 320-367: entity lookups, grouping and the output loop.  Line 325 calls
\* batch_load on AttributeBySlugLoader, which defines batch_load_fn only; the
\* call is read as that lookup, the list test_product_attribute_choices relies on.
ResolverAggregate(ids, attribute_slugs, product_rows, variant_rows) ==
    LET all_value_ids == {r.value_id : r \in product_rows}
                         \cup {r.value_id : r \in variant_rows}
        values == AttributeValueByIdLoader_batch_load(SetToSeq(all_value_ids))
        attributes == AttributeBySlugLoader_batch_load_fn(attribute_slugs)
        found_values == {values[i] : i \in {j \in DOMAIN values : values[j] # None}}
        values_dict == [id \in {v.id : v \in found_values} |->
                           CHOOSE v \in found_values : v.id = id]
        found_attributes ==
            {attributes[i] : i \in {j \in DOMAIN attributes : attributes[j] # None}}
        attributes_dict == [s \in {a.slug : a \in found_attributes} |->
                               CHOOSE a \in found_attributes : a.slug = s]
        value_to_products == ResolverValueToProducts(product_rows, variant_rows)
        emitted == ResolverEmittedSlugs(attribute_slugs, attributes_dict)
    IN  [i \in DOMAIN emitted |->
            ResolverGroup(attributes_dict[emitted[i]],
                          ResolverSlugToValues(ids, product_rows, variant_rows,
                                               emitted[i]),
                          value_to_products, values_dict)]

\* An aggregation that answers an empty scope with an empty list.
ResolverChoices_EarlyReturn(ids, attribute_slugs) ==
    IF ids = {} THEN << >>
    ELSE ResolverAggregate(ids, attribute_slugs,
                           ResolverProductRows(ids, attribute_slugs),
                           ResolverVariantRows(ids, attribute_slugs))

\* lines 297-367: the aggregation over a computed scope.
ResolverChoices(ids, attribute_slugs) ==
    ResolverAggregate(ids, attribute_slugs,
                      ResolverProductRows(ids, attribute_slugs),
                      ResolverVariantRows(ids, attribute_slugs))

resolve_product_attribute_choices(channel, attribute_slugs, filter, where) ==
    ResolverChoices(ResolverScope(channel, filter, where), attribute_slugs)

\* ------------------------------------------------------------------ single-slug path
EmptyList == [type |-> "list", items |-> << >>]

AttributeError == [type |-> "AttributeError"]

\* AttributeChoicesByProductIdsLoader.batch_load, lines 77-106: the rows of one
\* key grouped as value_id -> set of product ids.
LoaderValueToProducts(key) ==
    LET product_rows ==
            {r \in assignedProduct :
               r[1] \in key.product_ids /\ ValueAttributeSlug(r[2]) = key.slug}
        variant_rows ==
            {r \in assignedVariant :
               VariantProduct(r[1]) \in key.product_ids
               /\ ValueAttributeSlug(r[2]) = key.slug}
    IN  [value_id \in {r[2] : r \in product_rows} \cup {r[2] : r \in variant_rows} |->
            {r[1] : r \in {x \in product_rows : x[2] = value_id}}
            \cup {VariantProduct(r[1]) : r \in {x \in variant_rows : x[2] = value_id}}]

\* with_values, lines 111-123: v.id of an absent value raises.
with_values(attribute, value_map, ids, values) ==
    IF \E i \in DOMAIN values : values[i] = None
    THEN AttributeError
    ELSE LET value_dict == [id \in {values[i].id : i \in DOMAIN values} |->
                               CHOOSE v \in Range(values) : v.id = id]
         IN  [type |-> "ProductAttributeChoices",
              attribute |-> attribute,
              choices |->
                 { [product_count |-> Cardinality(ids),
                    value |-> value_dict[value_id]] :
                     value_id \in DOMAIN value_map \cap DOMAIN value_dict }]

\* A loop that stops at the first key without product ids.
SlugLoadsIssued_Break(keys) ==
    LET stop == {i \in DOMAIN keys : keys[i].product_ids = {}}
        first == IF stop = {} THEN Len(keys) + 1
                 ELSE CHOOSE i \in stop : \A j \in stop : i <= j
        loading == SubSeq(keys, 1, first - 1)
    IN  [i \in DOMAIN loading |-> loading[i].slug]

\* lines 71-74 and 131: the slugs batch_load hands to AttributeBySlugLoader.load,
\* in key order; a key without product ids loads nothing.
SlugLoadsIssued(keys) ==
    LET loading == SelectSeq(keys, LAMBDA k : k.product_ids # {})
    IN  [i \in DOMAIN loading |-> loading[i].slug]

\* lines 71-132 for one key: what its promise settles to.
LoaderKeyResult(key) ==
    IF key.product_ids = {}
    THEN EmptyList
    ELSE LET value_map == LoaderValueToProducts(key)
             attribute == AttributeBySlugLoader_batch_load_fn(<<key.slug>>)[1]
             values == AttributeValueByIdLoader_batch_load(SetToSeq(DOMAIN value_map))
         IN  with_values(attribute, value_map, key.product_ids, values)

\* Promise.all, line 134: one rejected promise rejects the batch.
PromiseAll(settled) ==
    IF \E i \in DOMAIN settled : settled[i] = AttributeError
    THEN AttributeError
    ELSE [type |-> "list", items |-> settled]

\* ------------------------------------------------------------------ keyed loader
\* load(key): a key neither resolved nor queued joins the pending batch.
Enqueue(queue, cache, key) ==
    IF key \in cache \/ key \in Range(queue) THEN queue ELSE Append(queue, key)

RECURSIVE EnqueueAll(_, _, _)
EnqueueAll(queue, cache, keys) ==
    IF keys = << >> THEN queue
    ELSE EnqueueAll(Enqueue(queue, cache, Head(keys)), cache, Tail(keys))

\* ------------------------------------------------------------------ inputs
Requestors ==
    { None,
      [type |-> "User", permissions |-> {}],
      [type |-> "User", permissions |-> {"MANAGE_PRODUCTS"}] }

\* filter and where inputs, each named by the products it matches.
FilterInputs ==
    { None,
      [search |-> "non-existing-product", matches |-> {}],
      [search |-> "first", matches |-> {1}] }

WhereInputs == { None, [ids |-> "not-first", matches |-> Products \ {1}] }

StoreSize ==
    Cardinality(assignedProduct) + Cardinality(assignedVariant)
    + Cardinality(deletedValues) + Cardinality(Products \ listed)

RequestSize(channel, attribute_slugs, filter, where, requestor) ==
    Len(attribute_slugs)
    + (IF channel = "default-channel" THEN 0 ELSE 1)
    + (IF filter = None THEN 0 ELSE 1)
    + (IF where = None THEN 0 ELSE 1)
    + (IF requestor = None THEN 0 ELSE 1)

\* ------------------------------------------------------------------ state machine
NoRequest == [type |-> "None"]

Unsettled == [type |-> "None"]

InitRows ==
    /\ assignedProduct \in BoundedSubsets(Products \X ValueIds, MaxInputSize)
    /\ assignedVariant \in
          BoundedSubsets(Variants \X ValueIds,
                         MaxInputSize - Cardinality(assignedProduct))
    /\ deletedValues \in
          BoundedSubsets(ValueIds,
                         MaxInputSize - Cardinality(assignedProduct)
                         - Cardinality(assignedVariant))

InitListings ==
    listed \in
       {Products \ hidden :
          hidden \in BoundedSubsets(Products,
                                    MaxInputSize - Cardinality(assignedProduct)
                                    - Cardinality(assignedVariant)
                                    - Cardinality(deletedValues))}

InitRequest ==
    /\ pc = "idle"
    /\ request = NoRequest
    /\ product_ids = {}
    /\ output = << >>
    /\ results = Unsettled

InitLoaders ==
    /\ turn = 0
    /\ turnKeys = << >>
    /\ pending = << >>
    /\ slugQueue = << >>
    /\ slugCache = << >>
    /\ slugBatches = << >>
    /\ valueQueue = << >>
    /\ valueCache = << >>
    /\ valueBatches = << >>

Init == InitRows /\ InitListings /\ InitRequest /\ InitLoaders

\* The productAttributeChoices field: one call of the resolver.
ResolveProductAttributeChoices ==
    /\ pc = "idle"
    /\ \E channel \in ChannelSlugs, filter \in FilterInputs, where \in WhereInputs,
          requestor \in Requestors,
          attribute_slugs \in SeqsUpTo(Slugs, MaxInputSize - StoreSize) :
        /\ StoreSize + RequestSize(channel, attribute_slugs, filter, where, requestor)
              <= MaxInputSize
        /\ request' = [type |-> "Request", channel |-> channel,
                       attribute_slugs |-> attribute_slugs, filter |-> filter,
                       where |-> where, requestor |-> requestor]
        /\ product_ids' = ResolverScope(channel, filter, where)
        /\ output' = resolve_product_attribute_choices(channel, attribute_slugs,
                                                       filter, where)
    /\ pc' = "resolved"
    /\ UNCHANGED <<storeVars, results, loaderVars>>

Next == ResolveProductAttributeChoices

Spec == Init /\ [][Next]_vars

\* ------------------------------------------------------------------ resolver properties
SlugResolves(slug) == \E a \in AttributeTable : a.slug = slug

RequestedResolvable == SelectSeq(request.attribute_slugs, SlugResolves)

\* The products of the scope that carry the value directly or through a variant.
ProductsCarrying(value_id) ==
    {p \in product_ids :
        \/ <<p, value_id>> \in assignedProduct
        \/ \E variant \in Variants :
              VariantProduct(variant) = p /\ <<variant, value_id>> \in assignedVariant}

\* C1: every choice (V, count) the resolver emits has count equal to the number
\* of distinct products of the scope that carry V directly or through one of
\* their variants; a product reached both ways counts once.
C1_DistinctProductCount ==
    pc = "resolved" =>
        \A i \in DOMAIN output : \A c \in output[i].choices :
            c.product_count = Cardinality(ProductsCarrying(c.value.id))

C1_Witness ==
    /\ pc = "resolved"
    /\ \E i \in DOMAIN output : \E c \in output[i].choices : \E p \in product_ids :
          /\ <<p, c.value.id>> \in assignedProduct
          /\ \E variant \in Variants :
                VariantProduct(variant) = p /\ <<variant, c.value.id>> \in assignedVariant
          /\ c.product_count = 1

\* (slug, value, count) triples of a group emitted for a slug.
Triples(slug, group) ==
    IF group.type = "ProductAttributeChoices"
    THEN {<<slug, c.value, c.product_count>> : c \in group.choices}
    ELSE {}

MultiSlugTriples ==
    UNION {Triples(output[i].attribute.slug, output[i]) : i \in DOMAIN output}

SingleSlugTriples ==
    UNION {Triples(request.attribute_slugs[i],
                   LoaderKeyResult([product_ids |-> product_ids,
                                    slug |-> request.attribute_slugs[i]])) :
           i \in DOMAIN request.attribute_slugs}

\* C2: for the scope and slug list of a request, the triples of the multi-slug
\* resolver equal the triples of the single-slug loader run once per slug.
C2_PathsAgree == pc = "resolved" => MultiSlugTriples = SingleSlugTriples

\* C3: with an empty product scope the resolver returns one group per requested
\* slug that resolves, each with no choices; the list is not empty when a slug
\* resolves.
C3_EmptyScopeGroups ==
    (pc = "resolved" /\ product_ids = {}) =>
        /\ Len(output) = Len(RequestedResolvable)
        /\ \A i \in DOMAIN output :
              /\ output[i].attribute.slug = RequestedResolvable[i]
              /\ output[i].choices = {}
        /\ (\E i \in DOMAIN request.attribute_slugs :
               SlugResolves(request.attribute_slugs[i])) => output # << >>

C3_Witness ==
    /\ pc = "resolved"
    /\ product_ids = {}
    /\ request.filter # None
    /\ assignedProduct # {}
    /\ Len(output) = 2
    /\ output[1].attribute.slug # output[2].attribute.slug

\* C5: the slugs of the returned groups are the requested slugs in request
\* order with the slugs that name no attribute removed.
C5_GroupOrder ==
    pc = "resolved" =>
        /\ Len(output) = Len(RequestedResolvable)
        /\ \A i \in DOMAIN output :
              /\ output[i].type = "ProductAttributeChoices"
              /\ output[i].attribute # None
              /\ output[i].attribute.slug = RequestedResolvable[i]

C5_Witness ==
    /\ pc = "resolved"
    /\ request.attribute_slugs = <<"size", "material", "color">>
    /\ Len(output) = 2
    /\ output[1].attribute.slug = "size"
    /\ output[2].attribute.slug = "color"

\* The scope of a requestor who sees every product: all products, narrowed by
\* the filter and where inputs only.
UnrestrictedScope ==
    LET qs1 == IF request.filter # None THEN filter_qs(Products, request.filter)
               ELSE Products
    IN  IF request.where # None THEN where_filter_qs(qs1, request.where) ELSE qs1

\* C7: a requestor holding one of the catalog-read permissions gets the scope
\* of all products narrowed by filter/where only, whatever the channel and the
\* listings are.
C7_PermissionBypass ==
    (pc = "resolved"
     /\ has_one_of_permissions(request.requestor, ALL_PRODUCTS_PERMISSIONS)) =>
        product_ids = UnrestrictedScope

\* C8: without a resolvable channel and without a catalog-read permission the
\* scope is empty and every resolvable slug gets a group without choices.
C8_NoChannelEmptyScope ==
    (pc = "resolved"
     /\ ChannelBySlugLoader_load(request.channel) = None
     /\ ~has_one_of_permissions(request.requestor, ALL_PRODUCTS_PERMISSIONS)) =>
        /\ product_ids = {}
        /\ Len(output) = Len(RequestedResolvable)
        /\ \A i \in DOMAIN output : output[i].choices = {}

C8_Witness ==
    /\ pc = "resolved"
    /\ ChannelBySlugLoader_load(request.channel) = None
    /\ ~has_one_of_permissions(request.requestor, ALL_PRODUCTS_PERMISSIONS)
    /\ request.filter = None /\ request.where = None
    /\ \E r \in assignedProduct : r[1] \in listed /\ ValueAttributeSlug(r[2]) = "size"
    /\ Len(output) = 1
    /\ output[1].attribute.slug = "size"
    /\ output[1].choices = {}

\* The assignment rows the resolver fetched for the handled request.
FetchedRows ==
    ResolverProductRows(product_ids, request.attribute_slugs)
    \cup ResolverVariantRows(product_ids, request.attribute_slugs)

\* C11: every emitted choice has 1 <= product_count <= size of the scope and
\* its product set lies inside the scope; every emitted value sits only in the
\* group of its own attribute; and the scope re-check drops nothing: a fetched
\* row of a requested slug that resolves puts its value, when the value
\* resolves, among the choices of every group of that slug.
C11_ChoicesWellFormed ==
    pc = "resolved" =>
        /\ \A i \in DOMAIN output : \A c \in output[i].choices :
              /\ 1 <= c.product_count
              /\ c.product_count <= Cardinality(product_ids)
              /\ c.value # None
              /\ ValueAttributeSlug(c.value.id) = output[i].attribute.slug
              /\ c.value.attribute_id = output[i].attribute.id
        /\ \A r \in FetchedRows : r.product_id \in product_ids
        /\ \A r \in FetchedRows : \A i \in DOMAIN output :
              (output[i].attribute.slug = r.slug
               /\ \E v \in CurrentValues : v.id = r.value_id) =>
                  \E c \in output[i].choices : c.value.id = r.value_id

C11_Witness ==
    /\ pc = "resolved"
    /\ product_ids # {} /\ product_ids # Products
    /\ \E i \in DOMAIN output : \E c \in output[i].choices :
          /\ c.product_count = Cardinality(product_ids)
          /\ \E p \in Products \ product_ids : <<p, c.value.id>> \in assignedProduct
          /\ \E r \in FetchedRows : r.value_id = c.value.id

\* ------------------------------------------------------------------ loader machine
ChoiceKeys == [product_ids : SUBSET Products, slug : Slugs]

KeySize(key) == 1 + Cardinality(key.product_ids)

\* The sequences of distinct keys whose sizes add up to at most n.
RECURSIVE KeySeqs(_)
KeySeqs(n) ==
    {<< >>} \cup
    UNION { {<<k>> \o rest : rest \in {r \in KeySeqs(n - KeySize(k)) : k \notin Range(r)}} :
            k \in {x \in ChoiceKeys : KeySize(x) <= n} }

RECURSIVE KeysSize(_)
KeysSize(keys) ==
    IF keys = << >> THEN 0 ELSE KeySize(Head(keys)) + KeysSize(Tail(keys))

RECURSIVE Flatten(_)
Flatten(seqs) == IF seqs = << >> THEN << >> ELSE Head(seqs) \o Flatten(Tail(seqs))

\* Keys the choices loader has been asked for so far.
LoadedKeys == Flatten(turnKeys)

InitLoader ==
    InitRows /\ listed = Products /\ InitRequest /\ InitLoaders

\* AttributeChoicesByProductIdsLoader.batch_load on the keys of one batch: the
\* synchronous loop over the keys; every attribute load is left pending.
ChoicesBatchLoad ==
    /\ pc \in {"idle", "settled"}
    /\ \E keys \in KeySeqs(MaxInputSize - StoreSize - KeysSize(LoadedKeys)) \ {<< >>} :
        /\ Range(keys) \cap Range(LoadedKeys) = {}
        /\ turn' = turn + 1
        /\ turnKeys' = Append(turnKeys, keys)
        /\ pending' =
              [i \in DOMAIN keys |->
                 IF keys[i].product_ids = {}
                 THEN [status |-> "settled", key |-> keys[i], value_map |-> << >>,
                       attribute |-> None, result |-> EmptyList]
                 ELSE [status |-> "attribute", key |-> keys[i],
                       value_map |-> LoaderValueToProducts(keys[i]),
                       attribute |-> None, result |-> Unsettled]]
        /\ slugQueue' = EnqueueAll(slugQueue, DOMAIN slugCache, SlugLoadsIssued(keys))
    /\ pc' = "loading"
    /\ results' = Unsettled
    /\ UNCHANGED <<storeVars, requestVars, output, slugCache, slugBatches,
                   valueQueue, valueCache, valueBatches>>

\* The scheduler flushes AttributeBySlugLoader: one batch_load_fn call for the
\* queued slugs, then build_choices (lines 110-129) runs for every waiting key
\* and queues its value ids with AttributeValueByIdLoader.load_many.
DispatchSlugQueue ==
    /\ pc = "loading"
    /\ LET fetched == AttributeBySlugLoader_batch_load_fn(slugQueue)
           cache == [s \in DOMAIN slugCache \cup Range(slugQueue) |->
                       IF s \in DOMAIN slugCache THEN slugCache[s]
                       ELSE fetched[CHOOSE i \in DOMAIN slugQueue : slugQueue[i] = s]]
           waiting == SelectSeq(pending, LAMBDA p : p.status = "attribute")
           wanted == Flatten([i \in DOMAIN waiting |->
                                 SetToSeq(DOMAIN waiting[i].value_map)])
       IN  /\ slugBatches' = IF slugQueue = << >> THEN slugBatches
                             ELSE Append(slugBatches, [turn |-> turn, keys |-> slugQueue])
           /\ slugCache' = cache
           /\ pending' =
                 [i \in DOMAIN pending |->
                    IF pending[i].status = "attribute"
                    THEN [pending[i] EXCEPT !.status = "values",
                                            !.attribute = cache[pending[i].key.slug]]
                    ELSE pending[i]]
           /\ valueQueue' = EnqueueAll(valueQueue, DOMAIN valueCache, wanted)
    /\ slugQueue' = << >>
    /\ pc' = "building"
    /\ UNCHANGED <<storeVars, requestVars, output, results, turn, turnKeys,
                   valueCache, valueBatches>>

\* The scheduler flushes AttributeValueByIdLoader: one batch_load call for the
\* queued ids, then with_values runs for every key and Promise.all settles.
DispatchValueQueue ==
    /\ pc = "building"
    /\ LET fetched == AttributeValueByIdLoader_batch_load(valueQueue)
           cache == [v \in DOMAIN valueCache \cup Range(valueQueue) |->
                       IF v \in DOMAIN valueCache THEN valueCache[v]
                       ELSE fetched[CHOOSE i \in DOMAIN valueQueue : valueQueue[i] = v]]
           settled ==
               [i \in DOMAIN pending |->
                  IF pending[i].status = "values"
                  THEN LET value_ids == SetToSeq(DOMAIN pending[i].value_map)
                       IN  [pending[i] EXCEPT
                              !.status = "settled",
                              !.result = with_values(pending[i].attribute,
                                                     pending[i].value_map,
                                                     pending[i].key.product_ids,
                                                     [j \in DOMAIN value_ids |->
                                                         cache[value_ids[j]]])]
                  ELSE pending[i]]
       IN  /\ valueBatches' = IF valueQueue = << >> THEN valueBatches
                              ELSE Append(valueBatches,
                                          [turn |-> turn, keys |-> valueQueue])
           /\ valueCache' = cache
           /\ pending' = settled
           /\ results' = PromiseAll([i \in DOMAIN settled |-> settled[i].result])
    /\ valueQueue' = << >>
    /\ pc' = "settled"
    /\ UNCHANGED <<storeVars, requestVars, output, turn, turnKeys,
                   slugQueue, slugCache, slugBatches>>

\* A direct batch_load call on one of the entity loaders.
EntityBatchLoad(loader, keys, fetched) ==
    /\ request' = [type |-> "batch_load", loader |-> loader, keys |-> keys]
    /\ results' = [type |-> "list", items |-> fetched]
    /\ pc' = "loaded"
    /\ UNCHANGED <<storeVars, product_ids, output, loaderVars>>

LoadAttributeValuesByAttributeId ==
    /\ pc = "idle"
    /\ \E keys \in SeqsUpTo(AttributeIds, MaxInputSize - StoreSize) \ {<< >>} :
          EntityBatchLoad("AttributeValuesByAttributeIdLoader", keys,
                          AttributeValuesByAttributeIdLoader_batch_load(keys))

LoadAttributesByAttributeId ==
    /\ pc = "idle"
    /\ \E keys \in SeqsUpTo(AttributeIds, MaxInputSize - StoreSize) \ {<< >>} :
          EntityBatchLoad("AttributesByAttributeId", keys,
                          AttributesByAttributeId_batch_load(keys))

LoadAttributeValueById ==
    /\ pc = "idle"
    /\ \E keys \in SeqsUpTo(ValueIds, MaxInputSize - StoreSize) \ {<< >>} :
          EntityBatchLoad("AttributeValueByIdLoader", keys,
                          AttributeValueByIdLoader_batch_load(keys))

LoadAttributeBySlug ==
    /\ pc = "idle"
    /\ \E keys \in SeqsUpTo(Slugs, MaxInputSize - StoreSize) \ {<< >>} :
          EntityBatchLoad("AttributeBySlugLoader", keys,
                          AttributeBySlugLoader_batch_load_fn(keys))

NextLoader ==
    \/ ChoicesBatchLoad
    \/ DispatchSlugQueue
    \/ DispatchValueQueue
    \/ LoadAttributeValuesByAttributeId
    \/ LoadAttributesByAttributeId
    \/ LoadAttributeValueById
    \/ LoadAttributeBySlug

SpecLoader == InitLoader /\ [][NextLoader]_vars

\* ------------------------------------------------------------------ loader properties
CurrentKeys == turnKeys[turn]

\* The settled batch agrees, key by key, with the per-key composition.
SettledAsComposed ==
    pc = "settled" =>
        results = PromiseAll([i \in DOMAIN CurrentKeys |-> LoaderKeyResult(CurrentKeys[i])])

\* C4: a key with no product ids whose slug resolves settles to a group of that
\* attribute with an empty choices list.
C4_EmptyIdsEmptyGroup ==
    pc = "settled" =>
        \A i \in DOMAIN CurrentKeys :
            (CurrentKeys[i].product_ids = {} /\ SlugResolves(CurrentKeys[i].slug)) =>
                /\ results.type = "list"
                /\ results.items[i].type = "ProductAttributeChoices"
                /\ results.items[i].attribute # None
                /\ results.items[i].attribute.slug = CurrentKeys[i].slug
                /\ results.items[i].choices = {}

\* C6: absence is skipped and never raises: no batch settles to an error and no
\* settled group carries an absent attribute.
C6_AbsenceSkipped ==
    pc = "settled" =>
        /\ results.type = "list"
        /\ \A i \in DOMAIN results.items :
              results.items[i].type = "ProductAttributeChoices" =>
                  results.items[i].attribute # None

\* Position i of an entity batch is the record matching key i, or the absent
\* marker.
EntityBatchPositional ==
    pc = "loaded" =>
        /\ results.type = "list"
        /\ Len(results.items) = Len(request.keys)
        /\ \A i \in DOMAIN request.keys :
              LET key == request.keys[i]
                  got == results.items[i]
              IN  CASE request.loader = "AttributeValuesByAttributeIdLoader" ->
                         got = {v \in CurrentValues : v.attribute_id = key}
                    [] request.loader = "AttributesByAttributeId" ->
                         \/ got \in AttributeTable /\ got.id = key
                         \/ got = None /\ \A a \in AttributeTable : a.id # key
                    [] request.loader = "AttributeValueByIdLoader" ->
                         \/ got \in CurrentValues /\ got.id = key
                         \/ got = None /\ \A v \in CurrentValues : v.id # key
                    [] request.loader = "AttributeBySlugLoader" ->
                         \/ got \in AttributeTable /\ got.slug = key
                         \/ got = None /\ ~SlugResolves(key)

\* Position i of a choices batch is the group of key i's attribute, or the
\* absent marker when the slug of key i names no attribute.
ChoicesBatchPositional ==
    pc = "settled" =>
        /\ results.type = "list"
        /\ Len(results.items) = Len(CurrentKeys)
        /\ \A i \in DOMAIN CurrentKeys :
              IF SlugResolves(CurrentKeys[i].slug)
              THEN /\ results.items[i].type = "ProductAttributeChoices"
                   /\ results.items[i].attribute # None
                   /\ results.items[i].attribute.slug = CurrentKeys[i].slug
              ELSE results.items[i] = None

\* C9: every loader's batch fetch returns as many positions as keys, position i
\* holding the record matching key i or the absent marker.
C9_PositionalResults == EntityBatchPositional /\ ChoicesBatchPositional

\* The slugs a choices batch needs fetched: those of its keys with product ids
\* that no earlier batch fetch has resolved.
SlugsToFetch(t) ==
    {turnKeys[t][i].slug : i \in {j \in DOMAIN turnKeys[t] : turnKeys[t][j].product_ids # {}}}
    \ UNION {Range(slugBatches[b].keys) :
               b \in {c \in DOMAIN slugBatches : slugBatches[c].turn < t}}

SlugBatchesOf(t) == {b \in DOMAIN slugBatches : slugBatches[b].turn = t}

\* C10: the attribute loads one choices batch issues are served by exactly one
\* attribute-by-slug batch fetch that receives every such slug once; slugs asked
\* for after that fetch go to a later one; nothing is fetched before the flush.
C10_OneBatchPerTurn ==
    \A t \in 1..turn :
        IF t = turn /\ pc = "loading"
        THEN /\ SlugBatchesOf(t) = {}
             /\ Range(slugQueue) = SlugsToFetch(t)
        ELSE IF SlugsToFetch(t) = {}
             THEN SlugBatchesOf(t) = {}
             ELSE /\ Cardinality(SlugBatchesOf(t)) = 1
                  /\ \A b \in SlugBatchesOf(t) :
                        /\ Range(slugBatches[b].keys) = SlugsToFetch(t)
                        /\ Len(slugBatches[b].keys) = Cardinality(SlugsToFetch(t))

C10_Witness ==
    /\ pc = "settled"
    /\ Len(turnKeys[1]) = 2
    /\ turnKeys[1][1].slug # turnKeys[1][2].slug
    /\ Len(slugBatches) = 1
    /\ Len(slugBatches[1].keys) = 2

\* A later choices batch whose slug was not fetched before gets a fetch of its own.
C10_WitnessNewBatch ==
    /\ pc = "settled"
    /\ turn = 2
    /\ Len(slugBatches) = 2
    /\ slugBatches[1].turn = 1
    /\ slugBatches[2].turn = 2
    /\ Range(slugBatches[1].keys) \cap Range(slugBatches[2].keys) = {}

====
